---- MODULE Spec2Model ----
(***************************************************************************)
(* Snap state persistence layer (snapUtils): the mutex-serialised upserts  *)
(* of accounts, networks, ERC-20 tokens and transactions, the pruning of   *)
(* accepted transactions, and the record locators they use.                *)
(*                                                                         *)
(* Strings that the code parses (addresses, hashes, chain ids) are         *)
(* sequences of one-character strings, so that num.toBigInt and Number     *)
(* are computed digit by digit; all other strings are opaque values.       *)
(***************************************************************************)
EXTENDS Integers, Sequences, FiniteSets, TLC

(***************************************************************************)
(* Bounds of the model.                                                    *)
(***************************************************************************)
NumProcs == 2
MaxCalls == 2

Procs == 1..NumProcs

(***************************************************************************)
(* String parsing: num.toBigInt (BigInt(value)) and Number(value).         *)
(***************************************************************************)
LowerDigits == <<"0","1","2","3","4","5","6","7","8","9","a","b","c","d","e","f">>
UpperDigits == <<"0","1","2","3","4","5","6","7","8","9","A","B","C","D","E","F">>

IsDigit(c, base) ==
    \E i \in 1..base : LowerDigits[i] = c \/ UpperDigits[i] = c

DigitValue(c) ==
    (CHOOSE i \in 1..16 : LowerDigits[i] = c \/ UpperDigits[i] = c) - 1

HasHexPrefix(s) ==
    Len(s) >= 2 /\ s[1] = "0" /\ s[2] \in {"x", "X"}

\* A string BigInt() and Number() both accept: decimal digits (the empty
\* string denotes 0) or 0x followed by at least one hex digit.
IsNumeric(s) ==
    IF HasHexPrefix(s)
    THEN Len(s) >= 3 /\ \A i \in 3..Len(s) : IsDigit(s[i], 16)
    ELSE \A i \in 1..Len(s) : IsDigit(s[i], 10)

RECURSIVE DigitsValue(_, _, _)
DigitsValue(s, base, acc) ==
    IF s = <<>> THEN acc
    ELSE DigitsValue(Tail(s), base, acc * base + DigitValue(Head(s)))

ParseValue(s) ==
    IF HasHexPrefix(s) THEN DigitsValue(SubSeq(s, 3, Len(s)), 16, 0)
    ELSE DigitsValue(s, 10, 0)

\* num.toBigInt throws a SyntaxError on a string that is no integer literal.
toBigIntThrows(s) == ~IsNumeric(s)
toBigInt(s) == ParseValue(s)

\* Number(s) is NaN on such a string, and NaN === NaN is false.
NaN == -1
Number(s) == IF IsNumeric(s) THEN ParseValue(s) ELSE NaN
NumberEq(a, b) == a # NaN /\ b # NaN /\ a = b

(***************************************************************************)
(* Documents (SnapState): four optional collections.                       *)
(***************************************************************************)
Absent == [present |-> FALSE, items |-> <<>>]
Coll(items) == [present |-> TRUE, items |-> items]

Kinds == {"accContracts", "networks", "erc20Tokens", "transactions"}

EmptyDoc == [k \in Kinds |-> Absent]

\* Mutant of Push: the record is put in front (unshift).
PushInFront(doc, kind, rec) ==
    [doc EXCEPT ![kind] = Coll(<<rec>> \o doc[kind].items)]

\* state.<kind>.push(rec) after "if (!state.<kind>) state.<kind> = []"
Push(doc, kind, rec) ==
    [doc EXCEPT ![kind] = Coll(Append(doc[kind].items, rec))]

\* Array.prototype.find as an index, from the predicate's value on each
\* item: the first match, 0 when there is none.
FindIndex(matches) ==
    IF \E i \in 1..Len(matches) : matches[i]
    THEN CHOOSE i \in 1..Len(matches) :
            matches[i] /\ \A j \in 1..(i - 1) : ~matches[j]
    ELSE 0

(***************************************************************************)
(* Canonical serialisation (toJson of ./serializer): the record's fields   *)
(* as name/value pairs in one fixed order, whatever order they were set in.*)
(***************************************************************************)
FieldOrder ==
    <<"accountClassHash", "address", "addressIndex", "addressSalt", "baseUrl",
      "chainId", "contractAddress", "decimals", "deployTxnHash",
      "derivationPath", "executionStatus", "failureReason", "finalityStatus",
      "name", "nodeUrl", "publicKey", "senderAddress", "status", "symbol",
      "timestamp", "txnHash", "txnType", "useOldAccounts", "voyagerUrl">>

toJson(rec) ==
    LET names == SelectSeq(FieldOrder, LAMBDA f : f \in DOMAIN rec)
    IN  [i \in 1..Len(names) |-> <<names[i], rec[names[i]]>>]

(***************************************************************************)
(* Record locators.  Each returns the index of the record found, 0 for     *)
(* undefined.  A locator that converts with num.toBigInt throws when the   *)
(* looked-up key, or a stored key it visits, is no integer literal.        *)
(***************************************************************************)
\* Mutant of SameAddress: keys compared as the strings they are spelled with.
SameAddressAsStrings(stored, address, chainId) ==
    /\ stored.address = address
    /\ stored.chainId = chainId

SameAddress(stored, address, chainId) ==
    /\ toBigInt(stored.address) = toBigInt(address)
    /\ NumberEq(Number(stored.chainId), Number(chainId))

getAccount(state, accountAddress, chainId) ==
    FindIndex([i \in 1..Len(state.accContracts.items) |->
                  SameAddress(state.accContracts.items[i], accountAddress, chainId)])

getErc20Token(state, tokenAddress, chainId) ==
    FindIndex([i \in 1..Len(state.erc20Tokens.items) |->
                  SameAddress(state.erc20Tokens.items[i], tokenAddress, chainId)])

\* Mutant of SameHash: keys compared as the strings they are spelled with.
SameHashAsStrings(stored, txnHash, chainId) ==
    /\ stored.txnHash = txnHash
    /\ stored.chainId = chainId

SameHash(stored, txnHash, chainId) ==
    /\ toBigInt(stored.txnHash) = toBigInt(txnHash)
    /\ NumberEq(Number(stored.chainId), Number(chainId))

getTransaction(state, txnHash, chainId) ==
    FindIndex([i \in 1..Len(state.transactions.items) |->
                  SameHash(state.transactions.items[i], txnHash, chainId)])

\* Mutant of getNetwork: legacy records are not skipped.
getNetworkIncludingLegacy(state, chainId) ==
    FindIndex([i \in 1..Len(state.networks.items) |->
                  NumberEq(Number(state.networks.items[i].chainId), Number(chainId))])

getNetwork(state, chainId) ==
    FindIndex([i \in 1..Len(state.networks.items) |->
                  /\ NumberEq(Number(state.networks.items[i].chainId), Number(chainId))
                  /\ ~state.networks.items[i].useOldAccounts])

\* find() converts the stored keys it visits: all up to the first match.
getAccountThrows(state, accountAddress, chainId) ==
    \/ toBigIntThrows(accountAddress)
    \/ LET items == state.accContracts.items
       IN  \E i \in 1..Len(items) :
              /\ toBigIntThrows(items[i].address)
              /\ \A j \in 1..(i - 1) :
                    /\ ~toBigIntThrows(items[j].address)
                    /\ ~SameAddress(items[j], accountAddress, chainId)

getErc20TokenThrows(state, tokenAddress, chainId) ==
    \/ toBigIntThrows(tokenAddress)
    \/ LET items == state.erc20Tokens.items
       IN  \E i \in 1..Len(items) :
              /\ toBigIntThrows(items[i].address)
              /\ \A j \in 1..(i - 1) :
                    /\ ~toBigIntThrows(items[j].address)
                    /\ ~SameAddress(items[j], tokenAddress, chainId)

getTransactionThrows(state, txnHash, chainId) ==
    \/ toBigIntThrows(txnHash)
    \/ LET items == state.transactions.items
       IN  \E i \in 1..Len(items) :
              /\ toBigIntThrows(items[i].txnHash)
              /\ \A j \in 1..(i - 1) :
                    /\ ~toBigIntThrows(items[j].txnHash)
                    /\ ~SameHash(items[j], txnHash, chainId)

(***************************************************************************)
(* The body of each mutating operation, from the document it starts on to  *)
(* the point where it returns, throws or issues the host update.           *)
(* Result: the document as the body left it, and how the body ended:       *)
(* "write" (host update issued), "noop" (early return) or "throw".         *)
(***************************************************************************)
Outcome(doc, out) == [doc |-> doc, out |-> out]

SetItem(doc, kind, i, rec) ==
    [doc EXCEPT ![kind].items[i] = rec]

\* Mutant of MergeAccount: the incoming address is copied as well.
MergeAccountWithAddress(storedAccount, userAccount) ==
    [storedAccount EXCEPT
        !.address = userAccount.address,
        !.addressSalt = userAccount.addressSalt,
        !.addressIndex = userAccount.addressIndex,
        !.derivationPath = userAccount.derivationPath,
        !.publicKey = userAccount.publicKey,
        !.deployTxnHash = IF userAccount.deployTxnHash # ""
                          THEN userAccount.deployTxnHash
                          ELSE storedAccount.deployTxnHash]

MergeAccount(storedAccount, userAccount) ==
    [storedAccount EXCEPT
        !.addressSalt = userAccount.addressSalt,
        !.addressIndex = userAccount.addressIndex,
        !.derivationPath = userAccount.derivationPath,
        !.publicKey = userAccount.publicKey,
        !.deployTxnHash = IF userAccount.deployTxnHash # ""
                          THEN userAccount.deployTxnHash
                          ELSE storedAccount.deployTxnHash]

upsertAccountBody(state, userAccount) ==
    IF getAccountThrows(state, userAccount.address, userAccount.chainId)
    THEN Outcome(state, "throw")
    ELSE LET i == getAccount(state, userAccount.address, userAccount.chainId)
         IN  IF i = 0
             THEN Outcome(Push(state, "accContracts", userAccount), "write")
             ELSE LET storedAccount == state.accContracts.items[i]
                  IN  IF toJson(storedAccount) = toJson(userAccount)
                      THEN Outcome(state, "noop")
                      ELSE Outcome(SetItem(state, "accContracts", i,
                                       MergeAccount(storedAccount, userAccount)),
                                   "write")

\* Mutant of MergeNetwork: the account class hash is not copied.
MergeNetworkWithoutClassHash(storedNetwork, network) ==
    [storedNetwork EXCEPT
        !.name = network.name,
        !.baseUrl = network.baseUrl,
        !.nodeUrl = network.nodeUrl,
        !.voyagerUrl = network.voyagerUrl]

MergeNetwork(storedNetwork, network) ==
    [storedNetwork EXCEPT
        !.name = network.name,
        !.baseUrl = network.baseUrl,
        !.nodeUrl = network.nodeUrl,
        !.voyagerUrl = network.voyagerUrl,
        !.accountClassHash = network.accountClassHash]

upsertNetworkBody(state, network) ==
    LET i == getNetwork(state, network.chainId)
    IN  IF i = 0
        THEN Outcome(Push(state, "networks", network), "write")
        ELSE LET storedNetwork == state.networks.items[i]
             IN  IF toJson(storedNetwork) = toJson(network)
                 THEN Outcome(state, "noop")
                 ELSE Outcome(SetItem(state, "networks", i,
                                  MergeNetwork(storedNetwork, network)),
                              "write")

MergeErc20Token(storedErc20Token, erc20Token) ==
    [storedErc20Token EXCEPT
        !.name = erc20Token.name,
        !.symbol = erc20Token.symbol,
        !.decimals = erc20Token.decimals]

\* Mutant of upsertErc20TokenBody: no early return on an equal record.
upsertErc20TokenBodyNoSkip(state, erc20Token) ==
    IF getErc20TokenThrows(state, erc20Token.address, erc20Token.chainId)
    THEN Outcome(state, "throw")
    ELSE LET i == getErc20Token(state, erc20Token.address, erc20Token.chainId)
         IN  IF i = 0
             THEN Outcome(Push(state, "erc20Tokens", erc20Token), "write")
             ELSE Outcome(SetItem(state, "erc20Tokens", i,
                              MergeErc20Token(state.erc20Tokens.items[i], erc20Token)),
                          "write")

upsertErc20TokenBody(state, erc20Token) ==
    IF getErc20TokenThrows(state, erc20Token.address, erc20Token.chainId)
    THEN Outcome(state, "throw")
    ELSE LET i == getErc20Token(state, erc20Token.address, erc20Token.chainId)
         IN  IF i = 0
             THEN Outcome(Push(state, "erc20Tokens", erc20Token), "write")
             ELSE LET storedErc20Token == state.erc20Tokens.items[i]
                  IN  IF toJson(storedErc20Token) = toJson(erc20Token)
                      THEN Outcome(state, "noop")
                      ELSE Outcome(SetItem(state, "erc20Tokens", i,
                                       MergeErc20Token(storedErc20Token, erc20Token)),
                                   "write")

MergeTransaction(storedTxn, txn) ==
    [storedTxn EXCEPT
        !.status = txn.status,
        !.executionStatus = txn.executionStatus,
        !.finalityStatus = txn.finalityStatus,
        !.failureReason = txn.failureReason,
        !.timestamp = txn.timestamp]

upsertTransactionBody(state, txn) ==
    IF getTransactionThrows(state, txn.txnHash, txn.chainId)
    THEN Outcome(state, "throw")
    ELSE LET i == getTransaction(state, txn.txnHash, txn.chainId)
         IN  IF i = 0
             THEN Outcome(Push(state, "transactions", txn), "write")
             ELSE LET storedTxn == state.transactions.items[i]
                  IN  IF toJson(storedTxn) = toJson(txn)
                      THEN Outcome(state, "noop")
                      ELSE Outcome(SetItem(state, "transactions", i,
                                       MergeTransaction(storedTxn, txn)),
                                   "write")

\* txns.forEach: every record is merged or pushed, with no comparison; a
\* throw in the middle leaves the records before it applied to the document.
RECURSIVE upsertTransactionsForEach(_, _)
upsertTransactionsForEach(state, txns) ==
    IF txns = <<>> THEN Outcome(state, "write")
    ELSE LET txn == Head(txns)
         IN  IF getTransactionThrows(state, txn.txnHash, txn.chainId)
             THEN Outcome(state, "throw")
             ELSE LET i == getTransaction(state, txn.txnHash, txn.chainId)
                      next == IF i = 0
                              THEN Push(state, "transactions", txn)
                              ELSE SetItem(state, "transactions", i,
                                       MergeTransaction(state.transactions.items[i], txn))
                  IN  upsertTransactionsForEach(next, Tail(txns))

\* Mutant of upsertTransactionsBody: the write-back is skipped when the loop
\* left the document as it was.
upsertTransactionsBodySkipsUnchanged(state, txns) ==
    LET r == upsertTransactionsForEach(state, txns)
    IN  IF r.out = "write" /\ r.doc = state THEN Outcome(state, "noop") ELSE r

\* Mutant of upsertTransactionsBody: only the first record is applied.
upsertTransactionsBodyFirstOnly(state, txns) ==
    upsertTransactionsForEach(state, SubSeq(txns, 1, IF txns = <<>> THEN 0 ELSE 1))

\* The loop, then the one host update that follows it unconditionally.
upsertTransactionsBody(state, txns) ==
    upsertTransactionsForEach(state, txns)

\* Mutant of KeepOnPrune: every transaction is pruned by age, whatever its
\* finality status.
KeepOnPruneByAgeOnly(txn, minTimeStamp) ==
    txn.timestamp * 1000 >= minTimeStamp

KeepOnPrune(txn, minTimeStamp) ==
    \/ /\ txn.finalityStatus # "ACCEPTED_ON_L2"
       /\ txn.finalityStatus # "ACCEPTED_ON_L1"
    \/ /\ txn.finalityStatus = "ACCEPTED_ON_L2"
       /\ txn.timestamp * 1000 >= minTimeStamp

\* Mutant of removeAcceptedTransactionBody: the write-back is skipped when the
\* filter removed nothing.
removeAcceptedTransactionBodySkipsUnchanged(state, minTimeStamp) ==
    IF ~state.transactions.present
    THEN Outcome(state, "throw")
    ELSE LET kept == SelectSeq(state.transactions.items,
                               LAMBDA txn : KeepOnPrune(txn, minTimeStamp))
         IN  Outcome([state EXCEPT !.transactions.items = kept],
                     IF kept = state.transactions.items THEN "noop" ELSE "write")

\* state.transactions.filter(...) is a TypeError when the collection is absent.
removeAcceptedTransactionBody(state, minTimeStamp) ==
    IF ~state.transactions.present
    THEN Outcome(state, "throw")
    ELSE Outcome([state EXCEPT !.transactions.items =
                     SelectSeq(@, LAMBDA txn : KeepOnPrune(txn, minTimeStamp))],
                 "write")

(***************************************************************************)
(* Inputs: the records, batches and cutoffs the callers pass.              *)
(***************************************************************************)
Hex1 == <<"0", "x", "1">>
Dec1 == <<"1">>
Hex2 == <<"0", "x", "2">>
NotANumber == <<"z">>

AccA == [address |-> Hex1, chainId |-> Dec1, addressSalt |-> "s1",
         addressIndex |-> 0, derivationPath |-> "m/0", publicKey |-> "pk1",
         deployTxnHash |-> "0xd1"]
AccB == [address |-> Dec1, chainId |-> Hex1, addressSalt |-> "s2",
         addressIndex |-> 1, derivationPath |-> "m/1", publicKey |-> "pk2",
         deployTxnHash |-> ""]
AccBad == [AccA EXCEPT !.address = NotANumber]

NetA == [chainId |-> Dec1, name |-> "A", baseUrl |-> "b1", nodeUrl |-> "n1",
         voyagerUrl |-> "v1", accountClassHash |-> "c1",
         useOldAccounts |-> FALSE]
NetB == [chainId |-> Hex1, name |-> "B", baseUrl |-> "b2", nodeUrl |-> "n2",
         voyagerUrl |-> "v2", accountClassHash |-> "c2",
         useOldAccounts |-> FALSE]
NetOld == [NetA EXCEPT !.useOldAccounts = TRUE]

TokA == [address |-> Hex1, chainId |-> Dec1, name |-> "Ether",
         symbol |-> "ETH", decimals |-> 18]
TokA2 == [address |-> Dec1, chainId |-> Hex1, name |-> "Eth2",
          symbol |-> "ET2", decimals |-> 6]
TokB == [TokA EXCEPT !.address = Hex2]

TxA == [txnHash |-> Hex1, chainId |-> Dec1, senderAddress |-> Hex1,
        contractAddress |-> Hex2, txnType |-> "invoke", status |-> "",
        executionStatus |-> "SUCCEEDED", finalityStatus |-> "ACCEPTED_ON_L2",
        failureReason |-> "", timestamp |-> 50]
TxB == [txnHash |-> Dec1, chainId |-> Hex1, senderAddress |-> Hex2,
        contractAddress |-> Hex2, txnType |-> "deploy", status |-> "",
        executionStatus |-> "REVERTED", finalityStatus |-> "ACCEPTED_ON_L1",
        failureReason |-> "reverted", timestamp |-> 150]
TxC == [txnHash |-> Hex2, chainId |-> Dec1, senderAddress |-> Hex1,
        contractAddress |-> Hex2, txnType |-> "invoke", status |-> "",
        executionStatus |-> "", finalityStatus |-> "RECEIVED",
        failureReason |-> "", timestamp |-> 10]
TxBad == [TxC EXCEPT !.txnHash = NotANumber]

Cutoff(minTimeStamp) == [minTimeStamp |-> minTimeStamp]

\* An operation's argument is a sequence: the one record of a single upsert,
\* the records of a batch, the cutoff of a pruning.
Args(op) ==
    CASE op = "upsertAccount" -> {<<AccB>>, <<AccBad>>}
      [] op = "upsertNetwork" -> {<<NetB>>, <<NetOld>>}
      [] op = "upsertErc20Token" -> {<<TokA2>>, <<TokB>>}
      [] op = "upsertTransaction" -> {<<TxB>>}
      [] op = "upsertTransactions" -> {<<TxB, TxA>>, <<TxC, TxBad>>}
      [] op = "removeAcceptedTransaction" -> {<<Cutoff(100000)>>}

Ops == {"upsertAccount", "upsertNetwork", "upsertErc20Token",
        "upsertTransaction", "upsertTransactions", "removeAcceptedTransaction"}

SingleUpserts == {"upsertAccount", "upsertNetwork", "upsertErc20Token",
                  "upsertTransaction"}

Body(op, arg, state) ==
    CASE op = "upsertAccount" -> upsertAccountBody(state, arg[1])
      [] op = "upsertNetwork" -> upsertNetworkBody(state, arg[1])
      [] op = "upsertErc20Token" -> upsertErc20TokenBody(state, arg[1])
      [] op = "upsertTransaction" -> upsertTransactionBody(state, arg[1])
      [] op = "upsertTransactions" -> upsertTransactionsBody(state, arg)
      [] op = "removeAcceptedTransaction" ->
            removeAcceptedTransactionBody(state, arg[1].minTimeStamp)

\* The document the host holds when the component starts: one record of
\* each kind but networks, whose collection is still absent.
SeedDoc ==
    [accContracts |-> Coll(<<AccA>>), networks |-> Absent,
     erc20Tokens |-> Coll(<<TokA>>), transactions |-> Coll(<<TxA, TxC>>)]

InitDocs == {SeedDoc}

(***************************************************************************)
(* State.                                                                  *)
(*   persisted   the document the host stores (snap_manageState)           *)
(*   mem[p]      the in-memory document caller p holds and may pass in     *)
(*   pc[p]       "idle", "waiting" (queued on the mutex), "get" or         *)
(*               "update" (that host request is in flight, lock held)      *)
(*   call[p]     p's current or last call: op, arg, sup (a document was    *)
(*               passed in), state (the document fetched when none was),   *)
(*               res ("none" while running, then "ok", "noop" or "error"), *)
(*               err (which step failed), gets and updates (host requests  *)
(*               issued), and history: docBefore (mem[p] when the call     *)
(*               started), persBefore (persisted when it got the lock),    *)
(*               conc (it overlapped another call), seq (its number),      *)
(*               twice (it repeats p's previous call, which succeeded and  *)
(*               was the last call started, on the same document)          *)
(*   mutexValue, mutexQueue   the mutex: 1 when free, and its FIFO waiters *)
(*   nCalls      calls started so far                                      *)
(*   query, result   the last call of a read accessor and what it returned *)
(***************************************************************************)
VARIABLES persisted, mem, pc, call, mutexValue, mutexQueue, nCalls,
          query, result

vars == <<persisted, mem, pc, call, mutexValue, mutexQueue, nCalls,
          query, result>>

readVars == <<query, result>>

NoQuery == [op |-> "none"]
NoResult == [out |-> "none"]

NoCall ==
    [op |-> "none", arg |-> <<>>, sup |-> FALSE, state |-> EmptyDoc,
     res |-> "none", err |-> "none", gets |-> 0, updates |-> 0,
     docBefore |-> EmptyDoc, persBefore |-> EmptyDoc, conc |-> FALSE,
     seq |-> 0, twice |-> FALSE]

Init ==
    /\ persisted \in InitDocs
    /\ mem = [p \in Procs |-> persisted]
    /\ pc = [p \in Procs |-> "idle"]
    /\ call = [p \in Procs |-> NoCall]
    /\ mutexValue = 1
    /\ mutexQueue = <<>>
    /\ nCalls = 0
    /\ query = NoQuery
    /\ result = NoResult

\* The document the running call of p works on.
CallDoc(p) == IF call[p].sup THEN mem[p] ELSE call[p].state

\* mutex.runExclusive(...) is called by p with these arguments: the call
\* queues for the lock.
StartCall(p, op, arg, sup) ==
    /\ pc[p] = "idle"
    /\ nCalls < MaxCalls
    /\ \A q \in 1..(p - 1) : call[q].op # "none"
    /\ call' = [q \in Procs |->
                  IF q = p
                  THEN [NoCall EXCEPT !.op = op, !.arg = arg, !.sup = sup,
                           !.docBefore = mem[p],
                           !.seq = nCalls + 1,
                           !.twice = /\ op \in SingleUpserts
                                     /\ call[p].op = op
                                     /\ call[p].arg = arg
                                     /\ call[p].sup = sup
                                     /\ call[p].res \in {"ok", "noop"}
                                     /\ call[p].seq = nCalls,
                           !.conc = \E r \in Procs \ {p} : pc[r] # "idle"]
                  ELSE IF pc[q] # "idle"
                       THEN [call[q] EXCEPT !.conc = TRUE]
                       ELSE call[q]]
    /\ pc' = [pc EXCEPT ![p] = "waiting"]
    /\ mutexQueue' = Append(mutexQueue, p)
    /\ nCalls' = nCalls + 1
    /\ UNCHANGED <<persisted, mem, mutexValue>>

\* Any of the six operations is called.  Callers are interchangeable and are
\* numbered in the order of their first call.
Call(p) ==
    \E op \in Ops : \E arg \in Args(op) : \E sup \in BOOLEAN :
        StartCall(p, op, arg, sup)

\* Mutant of CanAcquire: the first waiter proceeds whether or not the lock
\* is free.
CanAcquireHeldLock(p) ==
    /\ mutexQueue # <<>>
    /\ Head(mutexQueue) = p

\* The mutex hands the lock to its first waiter when it is free.
CanAcquire(p) ==
    /\ mutexQueue # <<>>
    /\ Head(mutexQueue) = p
    /\ mutexValue > 0

\* Mutant of RunBody: the host update is not awaited inside the exclusive
\* section, so the lock is released as soon as the update is issued.
RunBodyUpdateNotAwaited(p, c, doc, value) ==
    LET r == Body(c.op, c.arg, doc)
    IN  /\ mem' = IF c.sup THEN [mem EXCEPT ![p] = r.doc] ELSE mem
        /\ call' = [call EXCEPT ![p] =
                      [c EXCEPT
                         !.state = IF c.sup THEN c.state ELSE r.doc,
                         !.updates = IF r.out = "write" THEN 1 ELSE 0,
                         !.res = CASE r.out = "write" -> "none"
                                   [] r.out = "noop" -> "noop"
                                   [] r.out = "throw" -> "error",
                         !.err = IF r.out = "throw" THEN "throw" ELSE "none"]]
        /\ pc' = [pc EXCEPT ![p] = IF r.out = "write" THEN "update" ELSE "idle"]
        /\ mutexValue' = value + 1

\* The body runs on document doc with the lock held (value is the mutex
\* value while it runs); the lock is released when the body returns or throws
\* (runExclusive's finally), and kept while the host update is in flight.
RunBody(p, c, doc, value) ==
    LET r == Body(c.op, c.arg, doc)
    IN  /\ mem' = IF c.sup THEN [mem EXCEPT ![p] = r.doc] ELSE mem
        /\ call' = [call EXCEPT ![p] =
                      [c EXCEPT
                         !.state = IF c.sup THEN c.state ELSE r.doc,
                         !.updates = IF r.out = "write" THEN 1 ELSE 0,
                         !.res = CASE r.out = "write" -> "none"
                                   [] r.out = "noop" -> "noop"
                                   [] r.out = "throw" -> "error",
                         !.err = IF r.out = "throw" THEN "throw" ELSE "none"]]
        /\ pc' = [pc EXCEPT ![p] = IF r.out = "write" THEN "update" ELSE "idle"]
        /\ mutexValue' = IF r.out = "write" THEN value ELSE value + 1

\* The callback starts: with no document passed in it issues the host get,
\* otherwise it runs its body on the caller's document at once.
Acquire(p) ==
    /\ pc[p] = "waiting"
    /\ CanAcquire(p)
    /\ mutexQueue' = Tail(mutexQueue)
    /\ LET c == [call[p] EXCEPT !.persBefore = persisted]
       IN  IF c.sup
           THEN RunBody(p, c, mem[p], mutexValue - 1)
           ELSE /\ call' = [call EXCEPT ![p] = [c EXCEPT !.gets = 1]]
                /\ pc' = [pc EXCEPT ![p] = "get"]
                /\ mutexValue' = mutexValue - 1
                /\ mem' = mem
    /\ UNCHANGED <<persisted, nCalls>>

\* The host get answers with the persisted document; the body runs on it.
GetOk(p) ==
    /\ pc[p] = "get"
    /\ RunBody(p, call[p], persisted, mutexValue)
    /\ UNCHANGED <<persisted, mutexQueue, nCalls>>

\* Mutant of GetFail: the error propagates with the lock still held.
GetFailKeepsLock(p) ==
    /\ pc[p] = "get"
    /\ call' = [call EXCEPT ![p].res = "error", ![p].err = "get"]
    /\ pc' = [pc EXCEPT ![p] = "idle"]
    /\ UNCHANGED <<persisted, mem, mutexValue, mutexQueue, nCalls>>

\* The host get fails: the error propagates, the lock is released.
GetFail(p) ==
    /\ pc[p] = "get"
    /\ call' = [call EXCEPT ![p].res = "error", ![p].err = "get"]
    /\ pc' = [pc EXCEPT ![p] = "idle"]
    /\ mutexValue' = mutexValue + 1
    /\ UNCHANGED <<persisted, mem, mutexQueue, nCalls>>

\* The host update succeeds: the document replaces the persisted one.
UpdateOk(p) ==
    /\ pc[p] = "update"
    /\ persisted' = CallDoc(p)
    /\ call' = [call EXCEPT ![p].res = "ok"]
    /\ pc' = [pc EXCEPT ![p] = "idle"]
    /\ mutexValue' = mutexValue + 1
    /\ UNCHANGED <<mem, mutexQueue, nCalls>>

\* Mutant of UpdateFail: the failed update is issued again.
UpdateFailRetries(p) ==
    /\ pc[p] = "update"
    /\ call' = [call EXCEPT ![p].updates = @ + 1]
    /\ UNCHANGED <<persisted, mem, pc, mutexValue, mutexQueue, nCalls>>

\* The host update fails: nothing is persisted, the error propagates.
UpdateFail(p) ==
    /\ pc[p] = "update"
    /\ call' = [call EXCEPT ![p].res = "error", ![p].err = "update"]
    /\ pc' = [pc EXCEPT ![p] = "idle"]
    /\ mutexValue' = mutexValue + 1
    /\ UNCHANGED <<persisted, mem, mutexQueue, nCalls>>

\* The steps every call takes once it is queued.
Proceed(p) ==
    \/ Acquire(p) /\ UNCHANGED readVars
    \/ GetOk(p) /\ UNCHANGED readVars
    \/ GetFail(p) /\ UNCHANGED readVars
    \/ UpdateOk(p) /\ UNCHANGED readVars
    \/ UpdateFail(p) /\ UNCHANGED readVars

Next ==
    \E p \in Procs :
        \/ Call(p) /\ UNCHANGED readVars
        \/ Proceed(p)

Spec == Init /\ [][Next]_vars
(***************************************************************************)
(* Pruning, on documents whose transactions take every finality status     *)
(* (none included) at timestamps below, at and above the cutoff.            *)
(***************************************************************************)
PruneStatuses == {"ACCEPTED_ON_L2", "ACCEPTED_ON_L1", "RECEIVED", ""}
PruneTimestamps == {50, 100, 150}
PruneHashes == <<Hex1, Hex2>>
PruneCutoffs == {100000, 150000}

PruneTxn(i, status, timestamp) ==
    [TxC EXCEPT !.txnHash = PruneHashes[i], !.finalityStatus = status,
                !.timestamp = timestamp]

PruneTxnLists ==
    UNION {{[i \in 1..n |-> PruneTxn(i, f[i][1], f[i][2])] :
               f \in [1..n -> PruneStatuses \X PruneTimestamps]} :
           n \in 0..Len(PruneHashes)}

PruneDocs ==
    {[EmptyDoc EXCEPT !.transactions = Coll(txns)] : txns \in PruneTxnLists}
        \cup {EmptyDoc}

InitPrune ==
    /\ persisted \in PruneDocs
    /\ mem = [p \in Procs |-> persisted]
    /\ pc = [p \in Procs |-> "idle"]
    /\ call = [p \in Procs |-> NoCall]
    /\ mutexValue = 1
    /\ mutexQueue = <<>>
    /\ nCalls = 0
    /\ query = NoQuery
    /\ result = NoResult

\* removeAcceptedTransaction(minTimeStamp, wallet, mutex, state?) is called.
CallPrune(p) ==
    \E minTimeStamp \in PruneCutoffs : \E sup \in BOOLEAN :
        StartCall(p, "removeAcceptedTransaction", <<Cutoff(minTimeStamp)>>, sup)

NextPrune ==
    \E p \in Procs :
        \/ CallPrune(p) /\ UNCHANGED readVars
        \/ Proceed(p)

PruneSpec == InitPrune /\ [][NextPrune]_vars

(***************************************************************************)
(* Batches: the empty one, one whose records are all identical to the      *)
(* stored ones, one that merges and pushes, and one that throws.           *)
(***************************************************************************)
Batches == {<<>>, <<TxA, TxC>>, <<TxB, [TxC EXCEPT !.txnHash = <<"3">>]>>, <<TxBad>>}

\* A later state of the transaction TxA and TxB are earlier states of.
TxD == [TxA EXCEPT !.timestamp = 200]

\* The batches, and one with two records of one key.
BatchArgs == Batches \cup {<<TxB, TxD>>}

\* The document stores transactions, or nothing yet.
InitBatch ==
    /\ persisted \in {SeedDoc, EmptyDoc}
    /\ mem = [p \in Procs |-> persisted]
    /\ pc = [p \in Procs |-> "idle"]
    /\ call = [p \in Procs |-> NoCall]
    /\ mutexValue = 1
    /\ mutexQueue = <<>>
    /\ nCalls = 0
    /\ query = NoQuery
    /\ result = NoResult

\* upsertTransactions(txns, wallet, mutex, state?) is called.
CallBatch(p) ==
    \E txns \in BatchArgs : \E sup \in BOOLEAN :
        StartCall(p, "upsertTransactions", txns, sup)

NextBatch ==
    \E p \in Procs :
        \/ CallBatch(p) /\ UNCHANGED readVars
        \/ Proceed(p)

BatchSpec == InitBatch /\ [][NextBatch]_vars

(***************************************************************************)
(* Merges: single upserts on a document that stores a record of every      *)
(* kind (and a legacy network before the current one of the same chain),   *)
(* of records with the stored keys spelled differently.                    *)
(***************************************************************************)
AccC == [AccB EXCEPT !.deployTxnHash = "0xd2"]

NetLegacy == [NetOld EXCEPT !.name = "L"]

MergeDoc ==
    [accContracts |-> Coll(<<AccA>>), networks |-> Coll(<<NetLegacy, NetA>>),
     erc20Tokens |-> Coll(<<TokA>>), transactions |-> Coll(<<TxA>>)]

MergeArgs(op) ==
    CASE op = "upsertAccount" -> {<<AccB>>, <<AccC>>}
      [] op = "upsertNetwork" -> {<<NetB>>, <<NetOld>>}
      [] op = "upsertErc20Token" -> {<<TokA2>>}
      [] op = "upsertTransaction" -> {<<TxB>>}

InitMerge ==
    /\ persisted = MergeDoc
    /\ mem = [p \in Procs |-> persisted]
    /\ pc = [p \in Procs |-> "idle"]
    /\ call = [p \in Procs |-> NoCall]
    /\ mutexValue = 1
    /\ mutexQueue = <<>>
    /\ nCalls = 0
    /\ query = NoQuery
    /\ result = NoResult

\* One of the four single upserts is called.
CallMerge(p) ==
    \E op \in SingleUpserts : \E arg \in MergeArgs(op) : \E sup \in BOOLEAN :
        StartCall(p, op, arg, sup)

NextMerge ==
    \E p \in Procs :
        \/ CallMerge(p) /\ UNCHANGED readVars
        \/ Proceed(p)

MergeSpec == InitMerge /\ [][NextMerge]_vars

(***************************************************************************)
(* Optional arguments: undefined, or a value; for a transaction type or    *)
(* status a single value or an array of values.                            *)
(***************************************************************************)
Undefined == [set |-> FALSE, val |-> <<>>]
UndefinedNumber == [set |-> FALSE, val |-> 0]
Given(v) == [set |-> TRUE, val |-> v]

UndefinedValues == [set |-> FALSE, isArray |-> FALSE, vals |-> <<>>]
One(v) == [set |-> TRUE, isArray |-> FALSE, vals |-> <<v>>]
Many(vs) == [set |-> TRUE, isArray |-> TRUE, vals |-> vs]

(***************************************************************************)
(* The transaction filters (./transaction/filter): each keeps a            *)
(* transaction or not, and keeps every one when its argument is undefined. *)
(***************************************************************************)
ChainIdFilter(chainId, txn) ==
    NumberEq(Number(txn.chainId), chainId)

TimestampFilter(timestamp, txn) ==
    timestamp.set => txn.timestamp * 1000 >= timestamp.val

SenderAddressFilter(senderAddress, txn) ==
    senderAddress.set => toBigInt(txn.senderAddress) = senderAddress.val

ContractAddressFilter(contractAddress, txn) ==
    contractAddress.set => toBigInt(txn.contractAddress) = contractAddress.val

Includes(values, v) ==
    IF values.isArray
    THEN \E i \in 1..Len(values.vals) : values.vals[i] = v
    ELSE values.vals[1] = v

TxnTypeFilter(txnType, txn) ==
    txnType.set => Includes(txnType, txn.txnType)

StatusFilter(finalityStatus, executionStatus, txn) ==
    /\ finalityStatus.set => Includes(finalityStatus, txn.finalityStatus)
    /\ executionStatus.set => Includes(executionStatus, txn.executionStatus)

\* filterTransactions(txns, filters): the transactions every filter keeps.
filterTransactions(txns, filters) ==
    SelectSeq(txns, LAMBDA txn :
        /\ ChainIdFilter(filters.chainId, txn)
        /\ TimestampFilter(filters.timestamp, txn)
        /\ SenderAddressFilter(filters.senderAddress, txn)
        /\ ContractAddressFilter(filters.contractAddress, txn)
        /\ TxnTypeFilter(filters.txnType, txn)
        /\ StatusFilter(filters.finalityStatus, filters.executionStatus, txn))

(***************************************************************************)
(* Read accessors.  Each returns [out, value]: out is "return" or "throw", *)
(* value the sequence of the records returned (empty for undefined).       *)
(***************************************************************************)
Return(value) == [out |-> "return", value |-> value]
Throw == [out |-> "throw", value |-> <<>>]

\* Mutant of AddressArg: an undefined address is converted as 0.
AddressArgUndefinedAsZero(address) ==
    IF address.set /\ toBigIntThrows(address.val)
    THEN [set |-> TRUE, val |-> 0, throws |-> TRUE]
    ELSE [set |-> TRUE, val |-> toBigInt(address.val), throws |-> FALSE]

\* address ? num.toBigInt(address) : undefined
AddressArg(address) ==
    IF address.set /\ address.val # <<>>
    THEN IF toBigIntThrows(address.val)
         THEN [set |-> TRUE, val |-> 0, throws |-> TRUE]
         ELSE [set |-> TRUE, val |-> toBigInt(address.val), throws |-> FALSE]
    ELSE [set |-> FALSE, val |-> 0, throws |-> FALSE]

\* The default network (./constants); only its chain id is read.
STARKNET_TESTNET_NETWORK ==
    [chainId |-> <<"0", "x", "5">>, name |-> "Testnet", baseUrl |-> "bt",
     nodeUrl |-> "nt", voyagerUrl |-> "vt", accountClassHash |-> "ct",
     useOldAccounts |-> FALSE]

\* targerChainId || STARKNET_TESTNET_NETWORK.chainId, then getNetwork; throws
\* when no network is found.
getNetworkFromChainId(state, targerChainId) ==
    LET chainId == IF targerChainId.set /\ targerChainId.val # <<>>
                   THEN targerChainId.val
                   ELSE STARKNET_TESTNET_NETWORK.chainId
        i == getNetwork(state, chainId)
    IN  IF i = 0 THEN Throw ELSE Return(<<state.networks.items[i]>>)

\* Array.prototype.sort by a.addressIndex - b.addressIndex, which is stable:
\* the last account goes after the sorted others of an index not greater.
RECURSIVE SortByAddressIndex(_)
SortByAddressIndex(accs) ==
    IF accs = <<>> THEN <<>>
    ELSE LET acc == accs[Len(accs)]
             sorted == SortByAddressIndex(SubSeq(accs, 1, Len(accs) - 1))
             k == Cardinality({i \in 1..Len(sorted) :
                                  sorted[i].addressIndex <= acc.addressIndex})
         IN  SubSeq(sorted, 1, k) \o <<acc>> \o SubSeq(sorted, k + 1, Len(sorted))

\* Mutant of getAccounts: the filtered list is returned as stored.
getAccountsUnsorted(state, chainId) ==
    IF ~state.accContracts.present THEN Throw
    ELSE Return(SelectSeq(state.accContracts.items, LAMBDA acc :
                    NumberEq(Number(acc.chainId), Number(chainId))))

\* state.accContracts.filter(...) is a TypeError when the collection is absent.
getAccounts(state, chainId) ==
    IF ~state.accContracts.present THEN Throw
    ELSE Return(SortByAddressIndex(
                    SelectSeq(state.accContracts.items, LAMBDA acc :
                        NumberEq(Number(acc.chainId), Number(chainId)))))

\* state.erc20Tokens?.filter(...): undefined when the collection is absent.
getErc20Tokens(state, chainId) ==
    Return(SelectSeq(state.erc20Tokens.items, LAMBDA token :
               NumberEq(Number(token.chainId), Number(chainId))))

getNetworks(state) == Return(state.networks.items)

\* Mutant of getTransactions: the status filter is left out of the list.
getTransactionsWithoutStatusFilter(state, chainId, senderAddress, contractAddress, txnType, finalityStatus, executionStatus, minTimestamp) ==
    IF ~state.transactions.present THEN Return(<<>>)
    ELSE IF AddressArg(senderAddress).throws \/ AddressArg(contractAddress).throws
    THEN Throw
    ELSE Return(filterTransactions(state.transactions.items,
                    [chainId |-> Number(chainId),
                     timestamp |-> minTimestamp,
                     senderAddress |-> AddressArg(senderAddress),
                     contractAddress |-> AddressArg(contractAddress),
                     txnType |-> txnType,
                     finalityStatus |-> UndefinedValues,
                     executionStatus |-> UndefinedValues]))

getTransactions(state, chainId, senderAddress, contractAddress, txnType, finalityStatus, executionStatus, minTimestamp) ==
    IF ~state.transactions.present THEN Return(<<>>)
    ELSE IF AddressArg(senderAddress).throws \/ AddressArg(contractAddress).throws
    THEN Throw
    ELSE Return(filterTransactions(state.transactions.items,
                    [chainId |-> Number(chainId),
                     timestamp |-> minTimestamp,
                     senderAddress |-> AddressArg(senderAddress),
                     contractAddress |-> AddressArg(contractAddress),
                     txnType |-> txnType,
                     finalityStatus |-> finalityStatus,
                     executionStatus |-> executionStatus]))

(***************************************************************************)
(* Reads: the accessors are called on the document a caller holds.         *)
(***************************************************************************)
writeVars == <<persisted, mem, pc, call, mutexValue, mutexQueue, nCalls>>

\* Three transactions: on chain 1 from sender 1, on chain 1 from sender 2,
\* on chain 2 from sender 1.
Txn1 == [txnHash |-> Hex1, chainId |-> Dec1, senderAddress |-> Dec1,
         contractAddress |-> Hex2, txnType |-> "invoke", status |-> "",
         executionStatus |-> "SUCCEEDED", finalityStatus |-> "ACCEPTED_ON_L2",
         failureReason |-> "", timestamp |-> 100]
Txn2 == [txnHash |-> Hex2, chainId |-> Dec1, senderAddress |-> Hex2,
         contractAddress |-> Hex1, txnType |-> "deploy", status |-> "",
         executionStatus |-> "", finalityStatus |-> "RECEIVED",
         failureReason |-> "", timestamp |-> 200]
Txn3 == [txnHash |-> <<"3">>, chainId |-> <<"2">>, senderAddress |-> Hex1,
         contractAddress |-> Hex2, txnType |-> "invoke", status |-> "",
         executionStatus |-> "REVERTED", finalityStatus |-> "ACCEPTED_ON_L2",
         failureReason |-> "", timestamp |-> 300]

\* The lists of distinct records drawn from a set, in every order.
ListsOf(records) ==
    {l \in UNION {[1..n -> records] : n \in 0..Cardinality(records)} :
        \A i, j \in 1..Len(l) : l[i] = l[j] => i = j}

TransactionDocs ==
    {[SeedDoc EXCEPT !.transactions = Coll(txns)] :
        txns \in ListsOf({Txn1, Txn2, Txn3})}
        \cup {[SeedDoc EXCEPT !.transactions = Absent]}

\* Spellings of numbers: decimal, hexadecimal in either letter case,
\* with and without leading zeros.
Spelled ==
    {<<1, <<"1">>>>, <<1, <<"0", "1">>>>, <<1, <<"0", "x", "1">>>>,
     <<2, <<"2">>>>, <<2, <<"0", "x", "2">>>>, <<3, <<"3">>>>,
     <<10, <<"1", "0">>>>, <<10, <<"0", "x", "a">>>>, <<10, <<"0", "x", "A">>>>,
     <<10, <<"0", "x", "0", "a">>>>}
Spellings(n) == {sp[2] : sp \in {x \in Spelled : x[1] = n}}
KeyArgs == Spellings(1) \cup Spellings(10)

\* A document that holds, in each keyed collection, a record of key 2 and
\* after it a record whose key is spelled address, on chain chainId.
KeyedDoc(address, chainId) ==
    [accContracts |->
        Coll(<<[AccB EXCEPT !.address = Hex2, !.chainId = chainId],
               [AccA EXCEPT !.address = address, !.chainId = chainId]>>),
     networks |-> Absent,
     erc20Tokens |->
        Coll(<<[TokB EXCEPT !.address = Hex2, !.chainId = chainId],
               [TokA EXCEPT !.address = address, !.chainId = chainId]>>),
     transactions |->
        Coll(<<[TxC EXCEPT !.txnHash = Hex2, !.chainId = chainId],
               [TxA EXCEPT !.txnHash = address, !.chainId = chainId]>>)]

KeyedDocs ==
    {KeyedDoc(address, chainId) : address \in KeyArgs, chainId \in Spellings(1)}

\* Networks of chain 1 and of the default chain, current and legacy.
NetTest == [STARKNET_TESTNET_NETWORK EXCEPT !.chainId = <<"5">>]
NetTestOld == [STARKNET_TESTNET_NETWORK EXCEPT !.useOldAccounts = TRUE]

NetworkDocs ==
    {[SeedDoc EXCEPT !.networks = Coll(networks)] :
        networks \in ListsOf({NetA, NetOld, NetTest, NetTestOld})}

\* Accounts of chain 1 (spelled in two ways) and of chain 2, whose
\* derivation indexes are not in the order of their addresses.
Acc1 == [AccA EXCEPT !.address = Hex1, !.chainId = Dec1, !.addressIndex = 2]
Acc2 == [AccA EXCEPT !.address = Hex2, !.chainId = Hex1, !.addressIndex = 0]
Acc3 == [AccA EXCEPT !.address = <<"3">>, !.chainId = <<"2">>, !.addressIndex = 1]
Acc4 == [AccA EXCEPT !.address = <<"1", "0">>, !.chainId = Dec1, !.addressIndex = 1]

AccountDocs ==
    {[SeedDoc EXCEPT !.accContracts = Coll(accs)] :
        accs \in ListsOf({Acc1, Acc2, Acc3, Acc4})}

ReadDocs ==
    TransactionDocs \cup KeyedDocs \cup NetworkDocs \cup AccountDocs
        \cup {EmptyDoc}

InitRead ==
    /\ persisted \in ReadDocs
    /\ mem = [p \in Procs |-> persisted]
    /\ pc = [p \in Procs |-> "idle"]
    /\ call = [p \in Procs |-> NoCall]
    /\ mutexValue = 1
    /\ mutexQueue = <<>>
    /\ nCalls = 0
    /\ query = NoQuery
    /\ result = NoResult

ChainIdArgs == {Hex1, <<"2">>}
AddressArgs == {Undefined, Given(Hex1), Given(Hex2), Given(NotANumber)}
ContractArgs == {Undefined, Given(Hex2)}
TxnTypeArgs == {UndefinedValues, One("invoke"), Many(<<"invoke", "deploy">>)}
FinalityArgs == {UndefinedValues, One("ACCEPTED_ON_L2"),
                 Many(<<"RECEIVED", "ACCEPTED_ON_L1">>)}
ExecutionArgs == {UndefinedValues, One("SUCCEEDED")}
TimestampArgs == {UndefinedNumber, Given(200000)}

\* An accessor changes nothing, so a behaviour makes one read: a later one
\* would see the document the first one saw.
CanRead == query = NoQuery

\* getTransactions(state, chainId, senderAddress, ...) is called.
ReadTransactions ==
    /\ CanRead
    /\ \E chainId \in ChainIdArgs, senderAddress \in AddressArgs,
          contractAddress \in ContractArgs, txnType \in TxnTypeArgs,
          finalityStatus \in FinalityArgs, executionStatus \in ExecutionArgs,
          minTimestamp \in TimestampArgs :
            /\ query' = [op |-> "getTransactions", chainId |-> chainId,
                         senderAddress |-> senderAddress,
                         contractAddress |-> contractAddress,
                         txnType |-> txnType,
                         finalityStatus |-> finalityStatus,
                         executionStatus |-> executionStatus,
                         minTimestamp |-> minTimestamp]
            /\ result' = getTransactions(persisted, chainId, senderAddress,
                             contractAddress, txnType, finalityStatus,
                             executionStatus, minTimestamp)
    /\ UNCHANGED writeVars

\* What a locator returns: the record at the index found, or undefined.
Found(items, i) == Return(IF i = 0 THEN <<>> ELSE <<items[i]>>)

\* getAccount(state, accountAddress, chainId) is called.
ReadAccount ==
    /\ CanRead
    /\ \E accountAddress \in KeyArgs, chainId \in Spellings(1) \cup Spellings(2) :
          /\ query' = [op |-> "getAccount", key |-> accountAddress,
                       chainId |-> chainId]
          /\ result' = IF getAccountThrows(persisted, accountAddress, chainId)
                       THEN Throw
                       ELSE Found(persisted.accContracts.items,
                                  getAccount(persisted, accountAddress, chainId))
    /\ UNCHANGED writeVars

\* getErc20Token(state, tokenAddress, chainId) is called.
ReadErc20Token ==
    /\ CanRead
    /\ \E tokenAddress \in KeyArgs, chainId \in Spellings(1) \cup Spellings(2) :
          /\ query' = [op |-> "getErc20Token", key |-> tokenAddress,
                       chainId |-> chainId]
          /\ result' = IF getErc20TokenThrows(persisted, tokenAddress, chainId)
                       THEN Throw
                       ELSE Found(persisted.erc20Tokens.items,
                                  getErc20Token(persisted, tokenAddress, chainId))
    /\ UNCHANGED writeVars

\* getTransaction(state, txnHash, chainId) is called.
ReadTransaction ==
    /\ CanRead
    /\ \E txnHash \in KeyArgs, chainId \in Spellings(1) \cup Spellings(2) :
          /\ query' = [op |-> "getTransaction", key |-> txnHash,
                       chainId |-> chainId]
          /\ result' = IF getTransactionThrows(persisted, txnHash, chainId)
                       THEN Throw
                       ELSE Found(persisted.transactions.items,
                                  getTransaction(persisted, txnHash, chainId))
    /\ UNCHANGED writeVars

\* getNetwork(state, chainId) is called.
ReadNetwork ==
    /\ CanRead
    /\ \E chainId \in {Hex1, <<"5">>, <<"2">>} :
          /\ query' = [op |-> "getNetwork", chainId |-> chainId]
          /\ result' = Found(persisted.networks.items,
                             getNetwork(persisted, chainId))
    /\ UNCHANGED writeVars

\* getNetworkFromChainId(state, targerChainId) is called.
ReadNetworkFromChainId ==
    /\ CanRead
    /\ \E targerChainId \in {Undefined, Given(Hex1), Given(<<"2">>)} :
          /\ query' = [op |-> "getNetworkFromChainId", chainId |-> targerChainId]
          /\ result' = getNetworkFromChainId(persisted, targerChainId)
    /\ UNCHANGED writeVars

ListChainIdArgs == {Hex1, <<"2">>, NotANumber}

\* getAccounts(state, chainId) is called.
ReadAccounts ==
    /\ CanRead
    /\ \E chainId \in ListChainIdArgs :
          /\ query' = [op |-> "getAccounts", chainId |-> chainId]
          /\ result' = getAccounts(persisted, chainId)
    /\ UNCHANGED writeVars

\* getErc20Tokens(state, chainId) is called.
ReadErc20Tokens ==
    /\ CanRead
    /\ \E chainId \in ListChainIdArgs :
          /\ query' = [op |-> "getErc20Tokens", chainId |-> chainId]
          /\ result' = getErc20Tokens(persisted, chainId)
    /\ UNCHANGED writeVars

\* getNetworks(state) is called.
ReadNetworks ==
    /\ CanRead
    /\ query' = [op |-> "getNetworks"]
    /\ result' = getNetworks(persisted)
    /\ UNCHANGED writeVars

NextRead ==
    \/ ReadTransactions
    \/ ReadAccount
    \/ ReadErc20Token
    \/ ReadTransaction
    \/ ReadNetwork
    \/ ReadNetworkFromChainId
    \/ ReadAccounts
    \/ ReadErc20Tokens
    \/ ReadNetworks

ReadSpec == InitRead /\ [][NextRead]_vars


(***************************************************************************)
(* Vocabulary of the properties.                                           *)
(***************************************************************************)
Ended(p) == pc[p] = "idle" /\ call[p].op # "none"
InCritical(p) == pc[p] \in {"get", "update"}
Succeeded(p) == Ended(p) /\ call[p].res \in {"ok", "noop"}

Upserts == SingleUpserts \cup {"upsertTransactions"}

KindOf(op) ==
    CASE op = "upsertAccount" -> "accContracts"
      [] op = "upsertNetwork" -> "networks"
      [] op = "upsertErc20Token" -> "erc20Tokens"
      [] op \in {"upsertTransaction", "upsertTransactions",
                 "removeAcceptedTransaction"} -> "transactions"

\* The natural key of a record as numbers: (address, chainId), (chainId) or
\* (txnHash, chainId).
NaturalKey(kind, rec) ==
    CASE kind \in {"accContracts", "erc20Tokens"} ->
            <<ParseValue(rec.address), ParseValue(rec.chainId)>>
      [] kind = "networks" -> <<ParseValue(rec.chainId)>>
      [] kind = "transactions" ->
            <<ParseValue(rec.txnHash), ParseValue(rec.chainId)>>

\* The identity fields of a record as stored (their spelling included).
IdentityFields(kind, rec) ==
    CASE kind \in {"accContracts", "erc20Tokens"} -> <<rec.address, rec.chainId>>
      [] kind = "networks" -> <<rec.chainId>>
      [] kind = "transactions" -> <<rec.txnHash, rec.chainId>>

KeysOf(doc, kind) ==
    {NaturalKey(kind, doc[kind].items[i]) : i \in 1..Len(doc[kind].items)}

ArgKeys(op, arg) == {NaturalKey(KindOf(op), arg[i]) : i \in 1..Len(arg)}

UniqueKeys(doc, kind) ==
    \A i, j \in 1..Len(doc[kind].items) :
        NaturalKey(kind, doc[kind].items[i]) = NaturalKey(kind, doc[kind].items[j])
            => i = j

\* Every document of the system: the persisted one, the callers' and the
\* ones the running calls fetched.
Documents == {persisted} \cup {mem[p] : p \in Procs}
                 \cup {call[p].state : p \in Procs}

\* In this step the body of p's call ran (on document BodyDoc(p)).
BodyRan(p) ==
    \/ pc[p] = "waiting" /\ call[p].sup /\ pc'[p] # "waiting"
    \/ pc[p] = "get" /\ pc'[p] # "get" /\ call'[p].err # "get"
BodyDoc(p) == IF call[p].sup THEN mem[p] ELSE persisted
\* The document the body left, and whether it threw.
BodyResult(p) == IF call[p].sup THEN mem'[p] ELSE call'[p].state
BodyThrew(p) == call'[p].err = "throw"

\* In this step the filter of p's removeAcceptedTransaction call ran.
Pruned(p) ==
    /\ BodyRan(p)
    /\ call[p].op = "removeAcceptedTransaction"
    /\ ~BodyThrew(p)
Accepted(txn) == txn.finalityStatus \in {"ACCEPTED_ON_L2", "ACCEPTED_ON_L1"}

(***************************************************************************)
(* C1  No lost update: when two calls of upserts, both without a document  *)
(* passed in, on records with different natural keys, are the only calls   *)
(* made and both have finished with every host request succeeding, the     *)
(* persisted document holds a record for every key of both, under every    *)
(* interleaving of their steps.                                            *)
(***************************************************************************)
BothUpserted(p, q) ==
    /\ p # q
    /\ nCalls = 2
    /\ Succeeded(p) /\ Succeeded(q)
    /\ call[p].op \in Upserts /\ call[q].op \in Upserts
    /\ ~call[p].sup /\ ~call[q].sup
    /\ \/ KindOf(call[p].op) # KindOf(call[q].op)
       \/ ArgKeys(call[p].op, call[p].arg) \cap ArgKeys(call[q].op, call[q].arg) = {}

NoLostUpdate ==
    \A p, q \in Procs :
        BothUpserted(p, q) =>
            /\ ArgKeys(call[p].op, call[p].arg) \subseteq KeysOf(persisted, KindOf(call[p].op))
            /\ ArgKeys(call[q].op, call[q].arg) \subseteq KeysOf(persisted, KindOf(call[q].op))

\* Two token upserts that overlapped (one waited for the lock) and both wrote.
NoLostUpdateWitness ==
    \E p, q \in Procs :
        /\ BothUpserted(p, q)
        /\ call[p].conc /\ call[q].conc
        /\ call[p].op = "upsertErc20Token" /\ call[q].op = "upsertErc20Token"
        /\ call[p].arg = <<TokB>> /\ call[q].arg = <<TokA2>>
        /\ call[p].res = "ok" /\ call[q].res = "ok"
        /\ Len(persisted.erc20Tokens.items) = 2

(***************************************************************************)
(* C2  Critical sections never interleave: while one operation is between  *)
(* its first host request and its end, no other operation enters its own   *)
(* critical section, no other caller's document is mutated, and the        *)
(* persisted document changes only by that operation's own update.         *)
(***************************************************************************)
CriticalSectionsNeverInterleave ==
    [][\A p, q \in Procs :
          (p # q /\ InCritical(p)) =>
             /\ ~InCritical(q)
             /\ pc'[q] \notin {"get", "update"}
             /\ mem'[q] = mem[q]
             /\ call'[q].state = call[q].state \/ pc[q] = "idle"
             /\ persisted' # persisted => (pc[p] = "update" /\ pc'[p] = "idle")]_vars

\* One operation has its host update in flight while another, which passes
\* in its own document, waits for the lock.
CriticalSectionWitness ==
    \E p, q \in Procs :
        /\ p # q
        /\ pc[p] = "update"
        /\ pc[q] = "waiting" /\ call[q].sup
        /\ call[q].op = "removeAcceptedTransaction"

(***************************************************************************)
(* C3  The lock is released on every exit path: the mutex is taken exactly *)
(* while one operation has a host request in flight, so it is free after   *)
(* every success, no-op return, failed get, failed update or throw, and    *)
(* the first waiter can then acquire it.                                   *)
(***************************************************************************)
LockReleasedOnEveryExit ==
    /\ mutexValue = 1 - Cardinality({p \in Procs : InCritical(p)})
    /\ \A p \in Procs : pc[p] = "waiting" <=>
          \E i \in 1..Len(mutexQueue) : mutexQueue[i] = p
    /\ (mutexQueue # <<>> /\ \A p \in Procs : ~InCritical(p)) =>
          (pc[Head(mutexQueue)] = "waiting" /\ CanAcquire(Head(mutexQueue)))

\* A call failed while another waited, and the waiter then got the lock.
LockReleasedWitness ==
    \E p, q \in Procs :
        /\ p # q
        /\ Ended(p) /\ call[p].res = "error" /\ call[p].err = "throw"
        /\ call[p].conc /\ call[q].conc
        /\ call[q].seq > call[p].seq
        /\ InCritical(q)

(***************************************************************************)
(* C4  Idempotence of the single upserts: a call that repeats the caller's *)
(* previous, successful call (same upsert, same record, nothing in         *)
(* between) issues no host update.                                         *)
(***************************************************************************)
SecondUpsertIssuesNoUpdate ==
    \A p \in Procs :
        (Ended(p) /\ call[p].twice) => call[p].updates = 0

(***************************************************************************)
(* C5  Key uniqueness for accounts, tokens and transactions: every         *)
(* document holds at most one record per natural key, compared as numbers. *)
(***************************************************************************)
KeyUniqueness ==
    \A doc \in Documents :
        \A kind \in {"accContracts", "erc20Tokens", "transactions"} :
            UniqueKeys(doc, kind)

\* A batch naming one key twice, spelled in hex and in decimal, was stored on
\* top of the record already there.
KeyUniquenessWitness ==
    \E p \in Procs :
        /\ Ended(p) /\ call[p].res = "ok"
        /\ call[p].op = "upsertTransactions" /\ call[p].arg = <<TxB, TxA>>
        /\ Len(persisted.transactions.items) = 2
        /\ persisted.transactions.items[1].txnHash = Hex1

(***************************************************************************)
(* C6  Key uniqueness for networks: every document holds at most one       *)
(* Network record per chainId, whatever the useOldAccounts flags.          *)
(***************************************************************************)
NetworkKeyUniqueness ==
    \A doc \in Documents : UniqueKeys(doc, "networks")

(***************************************************************************)
(* C7  Merge preserves identity fields: the body of an upsert leaves the   *)
(* identity fields of every stored record exactly as they were spelled.    *)
(***************************************************************************)
MergePreservesIdentity ==
    [][\A p \in Procs :
          (BodyRan(p) /\ call[p].op \in Upserts) =>
             LET before == BodyDoc(p)
                 after == IF call[p].sup THEN mem'[p] ELSE call'[p].state
             IN  \A kind \in Kinds :
                    /\ Len(after[kind].items) >= Len(before[kind].items)
                    /\ \A i \in 1..Len(before[kind].items) :
                          IdentityFields(kind, after[kind].items[i])
                              = IdentityFields(kind, before[kind].items[i])]_vars

\* An account spelled in decimal was merged into the one stored in hex.
MergePreservesIdentityWitness ==
    \E p \in Procs :
        /\ Ended(p) /\ call[p].res = "ok"
        /\ call[p].op = "upsertAccount" /\ call[p].arg = <<AccB>>
        /\ Len(persisted.accContracts.items) = 1
        /\ persisted.accContracts.items[1].address = Hex1
        /\ persisted.accContracts.items[1].addressIndex = 1

(***************************************************************************)
(* C8  No-op short-circuit: when the body of a single upsert finds a       *)
(* stored record whose serialisation equals the incoming record's, the     *)
(* call issues no host update, changes neither the in-memory nor the       *)
(* persisted document, and completes without an error.                     *)
(***************************************************************************)
\* The record the upsert's locator finds in doc serialises as rec does.
StoredEqualsIncoming(op, doc, rec) ==
    \E i \in 1..Len(doc[KindOf(op)].items) :
        LET stored == doc[KindOf(op)].items[i]
        IN  /\ toJson(stored) = toJson(rec)
            /\ (op = "upsertNetwork" => ~stored.useOldAccounts)
            /\ \A j \in 1..(i - 1) :
                  \/ NaturalKey(KindOf(op), doc[KindOf(op)].items[j])
                        # NaturalKey(KindOf(op), rec)
                  \/ op = "upsertNetwork" /\ doc[KindOf(op)].items[j].useOldAccounts

NoOpShortCircuit ==
    [][\A p \in Procs :
          ( /\ BodyRan(p)
            /\ call[p].op \in SingleUpserts
            /\ StoredEqualsIncoming(call[p].op, BodyDoc(p), call[p].arg[1]) ) =>
             /\ call'[p].updates = 0
             /\ call'[p].res = "noop" /\ call'[p].err = "none"
             /\ pc'[p] = "idle"
             /\ mem' = mem
             /\ persisted' = persisted]_vars

\* A token was stored and the same token upserted again: the second call
\* ended as a no-op.
NoOpShortCircuitWitness ==
    \E p \in Procs :
        /\ Ended(p) /\ call[p].res = "noop"
        /\ call[p].op = "upsertErc20Token" /\ call[p].arg = <<TokB>>
        /\ call[p].twice
        /\ call[p].updates = 0

(***************************************************************************)
(* C9  Host failures propagate without retry: a call issues at most one    *)
(* host get and one host update; when either fails the call ends with an   *)
(* error in that step, with the lock released, no further host request,    *)
(* and the persisted document as it was when the call got the lock.        *)
(***************************************************************************)
HostFailuresPropagate ==
    [][\A p \in Procs :
          /\ call'[p].gets <= 1 /\ call'[p].updates <= 1
          /\ (call[p].err = "none" /\ call'[p].err \in {"get", "update"}) =>
                /\ call'[p].res = "error"
                /\ pc'[p] = "idle"
                /\ mutexValue' = mutexValue + 1
                /\ call'[p].gets = call[p].gets
                /\ call'[p].updates = call[p].updates
                /\ call'[p].err = "get" => call'[p].updates = 0
                /\ persisted' = persisted
                /\ persisted' = call[p].persBefore
          /\ (Ended(p) /\ pc'[p] = "idle") => call'[p] = call[p]]_vars

\* One call ended on a failed host get and another on a failed host update.
HostFailuresWitness ==
    \E p, q \in Procs :
        /\ Ended(p) /\ call[p].err = "get" /\ call[p].res = "error"
        /\ Ended(q) /\ call[q].err = "update" /\ call[q].res = "error"
        /\ call[q].updates = 1
        /\ persisted = SeedDoc

(***************************************************************************)
(* C10  State unchanged on error: when a call that was passed a document   *)
(* ends with an error, that document is as it was before the call.         *)
(***************************************************************************)
StateUnchangedOnError ==
    \A p \in Procs :
        (Ended(p) /\ call[p].res = "error" /\ call[p].sup) =>
            mem[p] = call[p].docBefore

(***************************************************************************)
(* C11  Pruning rule for accepted transactions: after                      *)
(* removeAcceptedTransaction(cutoff) a transaction accepted on either tier *)
(* (ACCEPTED_ON_L2 or ACCEPTED_ON_L1) is kept if and only if its timestamp *)
(* times 1000 is at least the cutoff.                                      *)
(***************************************************************************)
AcceptedKeptIffRecent ==
    [][\A p \in Procs :
          Pruned(p) =>
              LET before == BodyDoc(p).transactions.items
                  after == BodyResult(p).transactions.items
                  cutoff == call[p].arg[1].minTimeStamp
              IN  \A i \in 1..Len(before) :
                      Accepted(before[i]) =>
                          ((\E j \in 1..Len(after) : after[j] = before[i])
                              <=> before[i].timestamp * 1000 >= cutoff)]_vars

(***************************************************************************)
(* C12  Pruning never removes unfinalized transactions: the transactions   *)
(* whose finality status is neither ACCEPTED_ON_L2 nor ACCEPTED_ON_L1      *)
(* (none included) are the same records in the same order before and       *)
(* after removeAcceptedTransaction, for every cutoff and document.         *)
(***************************************************************************)
UnfinalizedRetained ==
    [][\A p \in Procs :
          Pruned(p) =>
              SelectSeq(BodyResult(p).transactions.items,
                        LAMBDA txn : ~Accepted(txn))
                  = SelectSeq(BodyDoc(p).transactions.items,
                              LAMBDA txn : ~Accepted(txn))]_vars

\* The only call pruned and stored: the accepted transaction older than the
\* cutoff is gone, the one with no finality status, as old, is still there.
UnfinalizedRetainedWitness ==
    \E p \in Procs :
        /\ nCalls = 1 /\ Ended(p) /\ call[p].res = "ok"
        /\ call[p].op = "removeAcceptedTransaction"
        /\ call[p].arg = <<Cutoff(100000)>>
        /\ call[p].persBefore.transactions.items =
              <<PruneTxn(1, "ACCEPTED_ON_L2", 50), PruneTxn(2, "", 50)>>
        /\ persisted.transactions.items = <<PruneTxn(2, "", 50)>>

(***************************************************************************)
(* C13  Pruning is an unconditional filter-then-store: every               *)
(* removeAcceptedTransaction call that does not fail issues exactly one    *)
(* host update, which stores the filtered document, also when nothing was  *)
(* removed; it issues a host get only when no document was passed in.      *)
(***************************************************************************)
PruneAlwaysStores ==
    [][\A p \in Procs :
          call'[p].op = "removeAcceptedTransaction" =>
              /\ call'[p].sup => call'[p].gets = 0
              /\ call'[p].gets <= 1 /\ call'[p].updates <= 1
              /\ (pc'[p] = "idle" /\ call'[p].res # "error") =>
                    /\ call'[p].res = "ok"
                    /\ call'[p].updates = 1
                    /\ call'[p].gets = IF call'[p].sup THEN 0 ELSE 1
              /\ (pc[p] = "update" /\ call'[p].res = "ok") =>
                    LET read == IF call[p].sup THEN call[p].docBefore
                                ELSE call[p].persBefore
                        cutoff == call[p].arg[1].minTimeStamp
                    IN  persisted' =
                            [read EXCEPT !.transactions.items =
                                SelectSeq(@, LAMBDA txn : KeepOnPrune(txn, cutoff))]]_vars

\* The only call, given no document, removed nothing from a document with
\* transactions and still issued its one get and one update.
PruneAlwaysStoresWitness ==
    \E p \in Procs :
        /\ nCalls = 1 /\ Ended(p) /\ call[p].res = "ok"
        /\ call[p].op = "removeAcceptedTransaction" /\ ~call[p].sup
        /\ call[p].gets = 1 /\ call[p].updates = 1
        /\ Len(persisted.transactions.items) = 2
        /\ persisted = call[p].persBefore

(***************************************************************************)
(* C14  Batch upsert cost: one upsertTransactions call on N records takes  *)
(* the lock once, issues at most one host get (none when a document is     *)
(* passed in) and, when it does not fail, exactly one host update, for     *)
(* every N, 0 included, and also when every record equals the stored one.  *)
(***************************************************************************)
BatchCost ==
    [][/\ \A p \in Procs :
             call'[p].op = "upsertTransactions" =>
                 /\ call'[p].sup => call'[p].gets = 0
                 /\ call'[p].gets <= 1 /\ call'[p].updates <= 1
                 /\ (pc'[p] = "idle" /\ call'[p].res # "error") =>
                       /\ call'[p].res = "ok"
                       /\ call'[p].updates = 1
                       /\ call'[p].gets = IF call'[p].sup THEN 0 ELSE 1
                 /\ pc'[p] = "waiting" => pc[p] \in {"idle", "waiting"}
                 /\ pc[p] = "idle" => pc'[p] \in {"idle", "waiting"}
       /\ mutexValue' < mutexValue =>
             \E p \in Procs : pc[p] = "waiting" /\ pc'[p] # "waiting"]_vars

\* One call stored the batch whose records all equal the stored ones, the
\* other the empty batch: each issued its one get and one update, and the
\* persisted document is as it was.
BatchCostWitness ==
    \E p, q \in Procs :
        /\ Ended(p) /\ call[p].res = "ok" /\ ~call[p].sup
        /\ call[p].op = "upsertTransactions" /\ call[p].arg = <<TxA, TxC>>
        /\ call[p].gets = 1 /\ call[p].updates = 1
        /\ Ended(q) /\ call[q].res = "ok" /\ ~call[q].sup
        /\ call[q].op = "upsertTransactions" /\ call[q].arg = <<>>
        /\ call[q].gets = 1 /\ call[q].updates = 1
        /\ persisted = SeedDoc

(***************************************************************************)
(* C15  Every mutating operation reads the document under the lock, also   *)
(* when it is given a pre-fetched one: when two concurrent upserts on      *)
(* records with different natural keys, each given the document its caller *)
(* fetched earlier, are the only calls made and both have finished with    *)
(* every host request succeeding, the persisted document holds a record    *)
(* for every key of both.                                                  *)
(***************************************************************************)
NoLostUpdateWithPrefetchedDocs ==
    \A p, q \in Procs :
        ( /\ p # q
          /\ nCalls = 2
          /\ Succeeded(p) /\ Succeeded(q)
          /\ call[p].op \in Upserts /\ call[q].op \in Upserts
          /\ call[p].sup /\ call[q].sup
          /\ call[p].conc /\ call[q].conc
          /\ \/ KindOf(call[p].op) # KindOf(call[q].op)
             \/ ArgKeys(call[p].op, call[p].arg) \cap ArgKeys(call[q].op, call[q].arg) = {} )
        => /\ ArgKeys(call[p].op, call[p].arg) \subseteq KeysOf(persisted, KindOf(call[p].op))
           /\ ArgKeys(call[q].op, call[q].arg) \subseteq KeysOf(persisted, KindOf(call[q].op))

(***************************************************************************)
(* The predicates of getTransactions as the arguments state them.          *)
(***************************************************************************)
SameNumber(a, b) == IsNumeric(a) /\ IsNumeric(b) /\ ParseValue(a) = ParseValue(b)
Among(values, v) == \E i \in 1..Len(values.vals) : values.vals[i] = v
OnChain(txn, q) == SameNumber(txn.chainId, q.chainId)
Satisfies(txn, q) ==
    /\ OnChain(txn, q)
    /\ q.minTimestamp.set => txn.timestamp * 1000 >= q.minTimestamp.val
    /\ q.senderAddress.set => SameNumber(txn.senderAddress, q.senderAddress.val)
    /\ q.contractAddress.set => SameNumber(txn.contractAddress, q.contractAddress.val)
    /\ q.txnType.set => Among(q.txnType, txn.txnType)
    /\ q.finalityStatus.set => Among(q.finalityStatus, txn.finalityStatus)
    /\ q.executionStatus.set => Among(q.executionStatus, txn.executionStatus)
OnlyChainIdSet(q) ==
    /\ ~q.minTimestamp.set /\ ~q.senderAddress.set /\ ~q.contractAddress.set
    /\ ~q.txnType.set /\ ~q.finalityStatus.set /\ ~q.executionStatus.set
StoredTransactions == persisted.transactions.items

(***************************************************************************)
(* C16  Filter AND-composition: getTransactions returns exactly the        *)
(* subsequence of the stored transactions that satisfy every predicate     *)
(* whose argument is given (chain id, minimum timestamp in ms, sender,     *)
(* contract, type, finality status, execution status), in their stored     *)
(* order; it fails only on a given address that is no number.              *)
(***************************************************************************)
FilterAndComposition ==
    query.op = "getTransactions" =>
        IF result.out = "return"
        THEN result.value =
                 SelectSeq(StoredTransactions, LAMBDA txn : Satisfies(txn, query))
        ELSE /\ persisted.transactions.present
             /\ \/ query.senderAddress.set /\ ~IsNumeric(query.senderAddress.val)
                \/ query.contractAddress.set /\ ~IsNumeric(query.contractAddress.val)

\* The three transactions filtered by chain 1 and sender 1: the first one.
FilterAndCompositionWitness ==
    /\ StoredTransactions = <<Txn1, Txn2, Txn3>>
    /\ query.op = "getTransactions"
    /\ query.chainId = Hex1 /\ query.senderAddress = Given(Hex1)
    /\ OnlyChainIdSet([query EXCEPT !.senderAddress = Undefined])
    /\ result = Return(<<Txn1>>)

(***************************************************************************)
(* C17  Pass-through filters: getTransactions called with a chain id and   *)
(* every optional argument undefined returns every stored transaction of   *)
(* that chain, whatever its other fields, and nothing else.                *)
(***************************************************************************)
PassThroughFilters ==
    (query.op = "getTransactions" /\ OnlyChainIdSet(query)) =>
        result = Return(SelectSeq(StoredTransactions,
                                  LAMBDA txn : OnChain(txn, query)))

\* The three transactions filtered by chain 1 alone: the two of chain 1,
\* which differ in every other filtered field.
PassThroughFiltersWitness ==
    /\ StoredTransactions = <<Txn3, Txn2, Txn1>>
    /\ query.op = "getTransactions" /\ OnlyChainIdSet(query)
    /\ query.chainId = Hex1
    /\ result = Return(<<Txn2, Txn1>>)

(***************************************************************************)
(* C18  Numeric key equivalence: getAccount, getErc20Token and             *)
(* getTransaction find a stored record whenever the looked-up address or   *)
(* hash is a spelling of the same number as the stored one and the chain   *)
(* ids are spellings of the same number; an upsert of a record with the    *)
(* looked-up key then merges into that record and inserts none.            *)
(***************************************************************************)
Denoted(s) == CHOOSE n \in {sp[1] : sp \in Spelled} : <<n, s>> \in Spelled
KeyOf(rec) == IF "txnHash" \in DOMAIN rec THEN rec.txnHash ELSE rec.address
SameKey(rec, q) ==
    /\ Denoted(KeyOf(rec)) = Denoted(q.key)
    /\ Denoted(rec.chainId) = Denoted(q.chainId)
LocatorKind(op) ==
    CASE op = "getAccount" -> "accContracts"
      [] op = "getErc20Token" -> "erc20Tokens"
      [] op = "getTransaction" -> "transactions"
UpsertOf(op, doc, q) ==
    CASE op = "getAccount" ->
            upsertAccountBody(doc, [AccB EXCEPT !.address = q.key, !.chainId = q.chainId])
      [] op = "getErc20Token" ->
            upsertErc20TokenBody(doc, [TokA2 EXCEPT !.address = q.key, !.chainId = q.chainId])
      [] op = "getTransaction" ->
            upsertTransactionBody(doc, [TxB EXCEPT !.txnHash = q.key, !.chainId = q.chainId])

NumericKeyEquivalence ==
    query.op \in {"getAccount", "getErc20Token", "getTransaction"} =>
        LET items == persisted[LocatorKind(query.op)].items
            upserted == UpsertOf(query.op, persisted, query)
        IN  (\E i \in 1..Len(items) : SameKey(items[i], query)) =>
                /\ result.out = "return"
                /\ Len(result.value) = 1
                /\ SameKey(result.value[1], query)
                /\ upserted.out = "write"
                /\ Len(upserted.doc[LocatorKind(query.op)].items) = Len(items)

\* An account stored under the decimal address 10 on chain 1 is found by the
\* address 0xA on chain 0x1.
NumericKeyEquivalenceWitness ==
    /\ persisted = KeyedDoc(<<"1", "0">>, <<"1">>)
    /\ query.op = "getAccount"
    /\ query.key = <<"0", "x", "A">> /\ query.chainId = <<"0", "x", "1">>
    /\ result = Return(<<persisted.accContracts.items[2]>>)

(***************************************************************************)
(* C19  Current-network lookup: getNetwork and getNetworkFromChainId       *)
(* return the first stored Network of the requested chain whose            *)
(* useOldAccounts flag is not set, never one whose flag is set; when there *)
(* is none, getNetwork returns undefined and getNetworkFromChainId throws; *)
(* getNetworkFromChainId looks up the default testnet chain id when the    *)
(* chain id is undefined.                                                   *)
(***************************************************************************)
CurrentNetworks(chainId) ==
    SelectSeq(persisted.networks.items,
              LAMBDA network : /\ SameNumber(network.chainId, chainId)
                               /\ ~network.useOldAccounts)

CurrentNetworkLookup ==
    /\ query.op = "getNetwork" =>
          LET current == CurrentNetworks(query.chainId)
          IN  result = Return(IF current = <<>> THEN <<>> ELSE <<Head(current)>>)
    /\ query.op = "getNetworkFromChainId" =>
          LET current == CurrentNetworks(IF query.chainId.set
                                         THEN query.chainId.val
                                         ELSE STARKNET_TESTNET_NETWORK.chainId)
          IN  result = IF current = <<>> THEN Throw ELSE Return(<<Head(current)>>)

\* With no chain id, and only a legacy network of the default chain stored
\* next to a current one of chain 1, the lookup throws.
CurrentNetworkLookupWitness ==
    /\ persisted.networks.items = <<NetTestOld, NetA>>
    /\ query.op = "getNetworkFromChainId" /\ query.chainId = Undefined
    /\ result = Throw

(***************************************************************************)
(* C20  Merge result reflects the most recent upsert: when the body of a   *)
(* single upsert of record r has run without throwing on a document that   *)
(* stores a record with r's natural key (for a Network: one that is not    *)
(* legacy), every mutable field of that stored record equals r's value,    *)
(* except the Account deployTxnHash, which is r's when r's is not empty    *)
(* and the stored one otherwise.                                           *)
(***************************************************************************)
MutableFields(kind) ==
    CASE kind = "accContracts" ->
            {"addressSalt", "addressIndex", "derivationPath", "publicKey"}
      [] kind = "networks" ->
            {"name", "baseUrl", "nodeUrl", "voyagerUrl", "accountClassHash"}
      [] kind = "erc20Tokens" -> {"name", "symbol", "decimals"}
      [] kind = "transactions" ->
            {"status", "executionStatus", "finalityStatus", "failureReason",
             "timestamp"}

\* The stored records of doc an upsert of r merges onto.
MergeTargets(doc, kind, r) ==
    {i \in 1..Len(doc[kind].items) :
        /\ NaturalKey(kind, doc[kind].items[i]) = NaturalKey(kind, r)
        /\ kind = "networks" => ~doc[kind].items[i].useOldAccounts}

LocatorsNeverRaise ==
    query.op \in {"getAccount", "getNetwork", "getErc20Token", "getTransaction",
                  "getAccounts", "getErc20Tokens", "getNetworks"} =>
        result.out = "return"

RECURSIVE UpsertEach(_, _)
UpsertEach(doc, txns) ==
    IF txns = <<>> THEN [doc |-> doc, ok |-> TRUE]
    ELSE LET r == upsertTransactionBody(doc, Head(txns))
         IN  IF r.out = "throw" THEN [doc |-> r.doc, ok |-> FALSE]
             ELSE UpsertEach(r.doc, Tail(txns))

BatchEqualsSequence ==
    [][\A p \in Procs :
          (call[p].op = "upsertTransactions" /\ pc[p] = "update"
              /\ call'[p].res = "ok") =>
              LET read == IF call[p].sup THEN call[p].docBefore
                          ELSE call[p].persBefore
                  each == UpsertEach(read, call[p].arg)
              IN  each.ok /\ persisted' = each.doc]_vars

\* The only call stored a batch of two records of the key of a stored
\* transaction: that transaction holds the second record's values.
BatchEqualsSequenceWitness ==
    \E p \in Procs :
        /\ nCalls = 1 /\ Ended(p) /\ call[p].res = "ok"
        /\ call[p].op = "upsertTransactions" /\ call[p].arg = <<TxB, TxD>>
        /\ call[p].persBefore = SeedDoc
        /\ persisted = [SeedDoc EXCEPT !.transactions.items[1] = TxD]

(***************************************************************************)
(* C24  Frame of a mutating operation: the body of an upsert or of         *)
(* removeAcceptedTransaction leaves the collections of the three other     *)
(* kinds unchanged; an upsert leaves every record of its own kind with a   *)
(* different natural key unchanged, every stored record at its position,   *)
(* and puts the records it inserts after the stored ones (a single upsert  *)
(* appends the incoming record as it is).                                  *)
(***************************************************************************)
FrameOfMutation ==
    [][\A p \in Procs :
          BodyRan(p) =>
              LET op == call[p].op
                  kind == KindOf(op)
                  before == BodyDoc(p)[kind].items
                  after == BodyResult(p)[kind].items
              IN  /\ \A other \in Kinds \ {kind} :
                        BodyResult(p)[other] = BodyDoc(p)[other]
                  /\ (op \in Upserts /\ ~BodyThrew(p)) =>
                        /\ Len(after) >= Len(before)
                        /\ \A i \in 1..Len(before) :
                              /\ NaturalKey(kind, after[i]) = NaturalKey(kind, before[i])
                              /\ NaturalKey(kind, before[i]) \notin ArgKeys(op, call[p].arg)
                                    => after[i] = before[i]
                        /\ \A i \in (Len(before) + 1)..Len(after) :
                              NaturalKey(kind, after[i]) \in ArgKeys(op, call[p].arg)
                        /\ (op \in SingleUpserts /\ Len(after) > Len(before)) =>
                              after = Append(before, call[p].arg[1])]_vars

\* The only call inserted a token: it is stored after the other token, whose
\* record, like the accounts, networks and transactions, is as it was.
FrameOfMutationWitness ==
    \E p \in Procs :
        /\ nCalls = 1 /\ Ended(p) /\ call[p].res = "ok"
        /\ call[p].op = "upsertErc20Token" /\ call[p].arg = <<TokB>>
        /\ persisted = [SeedDoc EXCEPT !.erc20Tokens = Coll(<<TokA, TokB>>)]

====
